---- MODULE Spec2Model ----
(***************************************************************************)
(* Model of src/backend/main.py: the FastAPI persistence backend of the    *)
(* task-list overlay.  The state is the four SQLite tables of init_db and  *)
(* the host clock; there is one action per request handler.                *)
(*                                                                         *)
(* Every handler is an `async def` without an await, so inside one server  *)
(* process a handler runs to completion before the next one starts: the    *)
(* sequential specifications take one step per request.  SpecConc models   *)
(* two server processes sharing overlay_data.db, where the statements of   *)
(* set_viewer_info interleave.                                             *)
(*                                                                         *)
(* Columns that no handler ever reads back (viewers.created_at,            *)
(* preferences.updated_at, stats.created_at) are left out of the rows.     *)
(***************************************************************************)
EXTENDS Integers, Sequences, FiniteSets, TLC

VARIABLES
    viewers,      \* table viewers: set of rows
    backlog,      \* table backlog: set of rows
    backlog_seq,  \* sqlite_sequence entry of backlog (AUTOINCREMENT)
    preferences,  \* table preferences: set of rows
    stats,        \* table stats: rows in id order
    now,          \* the host clock, UTC, in ticks
    tz,           \* the host's local-time offset from UTC, in ticks
    last,         \* the most recent request with its response
    lastWrite,    \* history: username -> UTC time of its latest viewer write
    prefSet,      \* history: key -> value of its latest set_preference
    addedAs,      \* history: item id -> completed flag it was inserted with
    flips,        \* history: item id -> successful toggles so far, modulo 2
    pc,           \* SpecConc: per process, position inside set_viewer_info
    call          \* SpecConc: per process, the request and its local `info`

vars == <<viewers, backlog, backlog_seq, preferences, stats, now, tz, last,
          lastWrite, prefSet, addedAs, flips, pc, call>>

tables == <<viewers, backlog, backlog_seq, preferences, stats>>

(***************************************************************************)
(* Bounds of the model and the input sets the requests draw from.          *)
(***************************************************************************)
MaxTime == 3
MaxItems == 3
MaxBulk == 8
MaxStats == 1

Day == 2

Usernames == {"u1", "u2"}
FieldSeq == <<"f1", "f2">>
Fields == {FieldSeq[i] : i \in DOMAIN FieldSeq}
Values == {"a", "b"}
TaskCounts == {0, 2}
Priorities == {1, 3, 5}
Keys == {"theme", "font"}
NoneStr == "None"
TZOffsets == {-1, 0, 1}
Procs == {1, 2}

InfoMaps == UNION {[D -> Values] : D \in SUBSET Fields}
EmptyMap == [k \in {} |-> "a"]

Range(s) == {s[i] : i \in DOMAIN s}

(***************************************************************************)
(* JSON text of a Dict[str, str]: the members of the object in order.      *)
(* NullText is a NULL or empty info column.                                *)
(***************************************************************************)
NullText == <<>>

JsonDumps(m) ==
    LET ks == SelectSeq(FieldSeq, LAMBDA k : k \in DOMAIN m)
    IN  <<"{">> \o [i \in 1..Len(ks) |-> <<ks[i], m[ks[i]]>>]

JsonLoads(t) ==
    LET members == Tail(t)
        keys == {members[i][1] : i \in DOMAIN members}
        lastAt(k) == CHOOSE i \in DOMAIN members :
                        /\ members[i][1] = k
                        /\ \A j \in DOMAIN members : members[j][1] = k => j <= i
    IN  [k \in keys |-> members[lastAt(k)][2]]

\* json.loads(row["info"]) if row["info"] else {}
RowInfo(row) == IF row.info # NullText THEN JsonLoads(row.info) ELSE EmptyMap

(***************************************************************************)
(* The clocks.  datetime.now() is naive local time; SQLite's               *)
(* CURRENT_TIMESTAMP and datetime('now', ...) are UTC.                     *)
(***************************************************************************)
DatetimeNow(t) == t + tz
CurrentTimestamp(t) == t
SqliteNowMinusDay(t) == t - Day

(***************************************************************************)
(* Result sets.  ORDER BY fixes the order of rows only as far as its keys  *)
(* tell them apart: any order of the rows that no key separates may come   *)
(* back.  An order operator Order(a, b) is "a sorts strictly before b".    *)
(***************************************************************************)
Perms(S) == {s \in [1..Cardinality(S) -> S] : Range(s) = S}

Elapse(d) == /\ now + d <= MaxTime
             /\ now' = now + d

(***************************************************************************)
(* Viewers                                                                 *)
(***************************************************************************)
ViewerInfo(row) ==
    [username |-> row.username, info |-> RowInfo(row), task_count |-> row.task_count]

\* Mutant: ORDER BY last_active ASC
ViewersOrder_Ascending(a, b) == a.last_active < b.last_active

\* ORDER BY last_active DESC
ViewersOrder(a, b) == a.last_active > b.last_active

\* SELECT * FROM viewers ORDER BY last_active DESC
SelectViewers(tbl) ==
    {s \in Perms(tbl) : \A i, j \in DOMAIN s : i < j => ~ViewersOrder(s[j], s[i])}

get_viewers ==
    /\ \E rows \in SelectViewers(viewers) :
          last' = [op |-> "get_viewers", status |-> 200,
                   body |-> [i \in DOMAIN rows |-> ViewerInfo(rows[i])]]
    /\ UNCHANGED <<tables, now, tz, lastWrite, prefSet, addedAs, flips, pc, call>>

get_viewer(username) ==
    /\ LET found == {r \in viewers : r.username = username}
       IN  IF found = {}
           THEN last' = [op |-> "get_viewer", username |-> username, status |-> 404,
                         detail |-> "Viewer not found"]
           ELSE \E row \in found :
                   last' = [op |-> "get_viewer", username |-> username, status |-> 200,
                            body |-> ViewerInfo(row)]
    /\ UNCHANGED <<tables, now, tz, lastWrite, prefSet, addedAs, flips, pc, call>>

\* Mutant: ON CONFLICT(username) DO NOTHING
UpsertViewerRow_KeepExisting(tbl, username, text, stamp, task_count) ==
    IF \E r \in tbl : r.username = username
    THEN tbl
    ELSE tbl \cup {[username |-> username, info |-> text, last_active |-> stamp,
                    task_count |-> task_count]}

\* INSERT INTO viewers (username, info, last_active, task_count) ...
\* ON CONFLICT(username) DO UPDATE SET info, last_active, task_count
UpsertViewerRow(tbl, username, text, stamp, task_count) ==
    IF \E r \in tbl : r.username = username
    THEN {IF r.username = username
          THEN [r EXCEPT !.info = text, !.last_active = stamp, !.task_count = task_count]
          ELSE r : r \in tbl}
    ELSE tbl \cup {[username |-> username, info |-> text, last_active |-> stamp,
                    task_count |-> task_count]}

upsert_viewer(username, info, task_count, d) ==
    /\ Elapse(d)
    /\ viewers' = UpsertViewerRow(viewers, username, JsonDumps(info),
                                  DatetimeNow(now'), task_count)
    /\ last' = [op |-> "upsert_viewer", status |-> 200, username |-> username,
                info |-> info, task_count |-> task_count,
                created |-> ~\E r \in viewers : r.username = username]
    /\ lastWrite' = (username :> now') @@ lastWrite
    /\ UNCHANGED <<backlog, backlog_seq, preferences, stats, tz, prefSet, addedAs,
                   flips, pc, call>>

\* task_count INTEGER DEFAULT 0
DefaultTaskCount == 0

\* SELECT info FROM viewers WHERE username = ? ; the local `info` dict
SelectInfo(tbl, username) ==
    IF \E r \in tbl : r.username = username
    THEN RowInfo(CHOOSE r \in tbl : r.username = username)
    ELSE EmptyMap

\* info[field] = value
SetField(info, field, value) == (field :> value) @@ info

\* Mutant: ON CONFLICT(username) DO UPDATE SET info only, the stamp left stale
UpsertViewerInfo_StaleStamp(tbl, username, text, stamp) ==
    IF \E r \in tbl : r.username = username
    THEN {IF r.username = username THEN [r EXCEPT !.info = text] ELSE r : r \in tbl}
    ELSE tbl \cup {[username |-> username, info |-> text, last_active |-> stamp,
                    task_count |-> DefaultTaskCount]}

\* Mutant: INSERT OR REPLACE, which rewrites the whole row
UpsertViewerInfo_Replace(tbl, username, text, stamp) ==
    {r \in tbl : r.username # username}
        \cup {[username |-> username, info |-> text, last_active |-> stamp,
                task_count |-> DefaultTaskCount]}

\* INSERT INTO viewers (username, info, last_active) ...
\* ON CONFLICT(username) DO UPDATE SET info, last_active
UpsertViewerInfo(tbl, username, text, stamp) ==
    IF \E r \in tbl : r.username = username
    THEN {IF r.username = username
          THEN [r EXCEPT !.info = text, !.last_active = stamp]
          ELSE r : r \in tbl}
    ELSE tbl \cup {[username |-> username, info |-> text, last_active |-> stamp,
                    task_count |-> DefaultTaskCount]}

set_viewer_info(username, field, value, d) ==
    /\ Elapse(d)
    /\ LET info == SetField(SelectInfo(viewers, username), field, value)
       IN  viewers' = UpsertViewerInfo(viewers, username, JsonDumps(info),
                                       DatetimeNow(now'))
    /\ last' = [op |-> "set_viewer_info", status |-> 200, username |-> username,
                field |-> field, value |-> value,
                created |-> ~\E r \in viewers : r.username = username]
    /\ lastWrite' = (username :> now') @@ lastWrite
    /\ UNCHANGED <<backlog, backlog_seq, preferences, stats, tz, prefSet, addedAs,
                   flips, pc, call>>

(***************************************************************************)
(* Backlog.  SQLite stores the BOOLEAN column completed as 0 or 1.         *)
(***************************************************************************)
SqlBool(b) == IF b THEN 1 ELSE 0
PyBool(n) == n # 0
\* Mutant: SET completed = 1, marking the item done instead of toggling it
SqlNot_AlwaysTrue(n) == 1

SqlNot(n) == IF n = 0 THEN 1 ELSE 0

BacklogItemResponse(row) ==
    [id |-> row.id, username |-> row.username, description |-> row.description,
     priority |-> row.priority, completed |-> PyBool(row.completed),
     created_at |-> row.created_at]

\* Mutant: ORDER BY completed ASC, priority ASC, created_at ASC
BacklogOrder_PriorityAscending(a, b) ==
    \/ a.completed < b.completed
    \/ a.completed = b.completed /\ a.priority < b.priority
    \/ a.completed = b.completed /\ a.priority = b.priority
                                 /\ a.created_at < b.created_at

\* ORDER BY completed ASC, priority DESC, created_at ASC
BacklogOrder(a, b) ==
    \/ a.completed < b.completed
    \/ a.completed = b.completed /\ a.priority > b.priority
    \/ a.completed = b.completed /\ a.priority = b.priority
                                 /\ a.created_at < b.created_at

\* SELECT * FROM backlog WHERE username = ? ORDER BY ...
SelectBacklog(tbl, username) ==
    {s \in Perms({r \in tbl : r.username = username}) :
        \A i, j \in DOMAIN s : i < j => ~BacklogOrder(s[j], s[i])}

get_backlog(username) ==
    /\ \E rows \in SelectBacklog(backlog, username) :
          last' = [op |-> "get_backlog", username |-> username, status |-> 200,
                   body |-> [i \in DOMAIN rows |-> BacklogItemResponse(rows[i])]]
    /\ UNCHANGED <<tables, now, tz, lastWrite, prefSet, addedAs, flips, pc, call>>

add_backlog_item(username, description, priority, completed, d) ==
    /\ Elapse(d)
    /\ LET row == [id |-> backlog_seq + 1, username |-> username,
                   description |-> description, priority |-> priority,
                   completed |-> SqlBool(completed),
                   created_at |-> CurrentTimestamp(now')]
       IN  /\ backlog' = backlog \cup {row}
           /\ backlog_seq' = row.id
           /\ \E got \in {r \in backlog' : r.id = row.id} :
                 last' = [op |-> "add_backlog_item", status |-> 200,
                          body |-> BacklogItemResponse(got)]
           /\ addedAs' = (row.id :> completed) @@ addedAs
           /\ flips' = (row.id :> 0) @@ flips
    /\ UNCHANGED <<viewers, preferences, stats, tz, lastWrite, prefSet, pc, call>>

\* UPDATE backlog SET completed = NOT completed WHERE id = ?
ToggleRows(tbl, item_id) ==
    {IF r.id = item_id THEN [r EXCEPT !.completed = SqlNot(r.completed)] ELSE r :
        r \in tbl}

\* Mutant: no rowcount check, the handler answers success whatever the id
toggle_backlog_complete_Unchecked(item_id) ==
    /\ backlog' = ToggleRows(backlog, item_id)
    /\ last' = [op |-> "toggle_backlog_complete", id |-> item_id, status |-> 200]
    /\ flips' = IF \E r \in backlog : r.id = item_id
                THEN [flips EXCEPT ![item_id] = (@ + 1) % 2]
                ELSE flips
    /\ UNCHANGED <<viewers, backlog_seq, preferences, stats, now, tz, lastWrite,
                   prefSet, addedAs, pc, call>>

toggle_backlog_complete(item_id) ==
    /\ backlog' = ToggleRows(backlog, item_id)
    /\ LET rowcount == Cardinality({r \in backlog : r.id = item_id})
       IN  /\ last' = IF rowcount = 0
                      THEN [op |-> "toggle_backlog_complete", id |-> item_id,
                            status |-> 404, detail |-> "Item not found"]
                      ELSE [op |-> "toggle_backlog_complete", id |-> item_id,
                            status |-> 200]
           /\ flips' = IF rowcount = 0 THEN flips
                       ELSE [flips EXCEPT ![item_id] = (@ + 1) % 2]
    /\ UNCHANGED <<viewers, backlog_seq, preferences, stats, now, tz, lastWrite,
                   prefSet, addedAs, pc, call>>

\* DELETE FROM backlog WHERE id = ?
DeleteRows(tbl, item_id) == {r \in tbl : r.id # item_id}

delete_backlog_item(item_id) ==
    /\ backlog' = DeleteRows(backlog, item_id)
    /\ LET rowcount == Cardinality({r \in backlog : r.id = item_id})
       IN  last' = IF rowcount = 0
                   THEN [op |-> "delete_backlog_item", id |-> item_id,
                         status |-> 404, detail |-> "Item not found"]
                   ELSE [op |-> "delete_backlog_item", id |-> item_id, status |-> 200]
    /\ addedAs' = [i \in DOMAIN addedAs \ {item_id} |-> addedAs[i]]
    /\ flips' = [i \in DOMAIN flips \ {item_id} |-> flips[i]]
    /\ UNCHANGED <<viewers, backlog_seq, preferences, stats, now, tz, lastWrite,
                   prefSet, pc, call>>

(***************************************************************************)
(* Preferences                                                             *)
(***************************************************************************)
\* Mutant: an absent key answers with an empty value instead of 404
get_preference_Default(key) ==
    /\ LET found == {r \in preferences : r.key = key}
       IN  IF found = {}
           THEN last' = [op |-> "get_preference", key |-> key, status |-> 200,
                         body |-> [key |-> key, value |-> ""]]
           ELSE \E row \in found :
                   last' = [op |-> "get_preference", key |-> key, status |-> 200,
                            body |-> [key |-> key, value |-> row.value]]
    /\ UNCHANGED <<tables, now, tz, lastWrite, prefSet, addedAs, flips, pc, call>>

get_preference(key) ==
    /\ LET found == {r \in preferences : r.key = key}
       IN  IF found = {}
           THEN last' = [op |-> "get_preference", key |-> key, status |-> 404,
                         detail |-> "Preference not found"]
           ELSE \E row \in found :
                   last' = [op |-> "get_preference", key |-> key, status |-> 200,
                            body |-> [key |-> key, value |-> row.value]]
    /\ UNCHANGED <<tables, now, tz, lastWrite, prefSet, addedAs, flips, pc, call>>

\* INSERT INTO preferences ... ON CONFLICT(key) DO UPDATE SET value, updated_at
UpsertPreference(tbl, key, value) ==
    IF \E r \in tbl : r.key = key
    THEN {IF r.key = key THEN [r EXCEPT !.value = value] ELSE r : r \in tbl}
    ELSE tbl \cup {[key |-> key, value |-> value]}

set_preference(key, value) ==
    /\ preferences' = UpsertPreference(preferences, key, value)
    /\ last' = [op |-> "set_preference", key |-> key, status |-> 200]
    /\ prefSet' = (key :> value) @@ prefSet
    /\ UNCHANGED <<viewers, backlog, backlog_seq, stats, now, tz, lastWrite, addedAs,
                   flips, pc, call>>

(***************************************************************************)
(* Stats                                                                   *)
(***************************************************************************)
log_stat(event_type, username, data) ==
    /\ stats' = Append(stats, [id |-> Len(stats) + 1, event_type |-> event_type,
                               username |-> username, data |-> data])
    /\ last' = [op |-> "log_stat", status |-> 200]
    /\ UNCHANGED <<viewers, backlog, backlog_seq, preferences, now, tz, lastWrite,
                   prefSet, addedAs, flips, pc, call>>

\* Mutant: the rate cut off after the first decimal instead of rounded
CompletionRate_Truncated(completed, total) == (completed * 1000) \div total

\* round(completed / total * 100, 1), in tenths: the nearest tenth, a tie going to
\* the even one
CompletionRate(completed, total) ==
    LET q == (completed * 1000) \div total
        r == (completed * 1000) % total
    IN  IF 2 * r < total THEN q
        ELSE IF 2 * r > total THEN q + 1
        ELSE IF q % 2 = 0 THEN q ELSE q + 1

get_stats_summary(d) ==
    /\ Elapse(d)
    /\ LET total_viewers == Cardinality(viewers)
           active_viewers == Cardinality({r \in viewers :
                                 r.last_active > SqliteNowMinusDay(now')})
           total_backlog == Cardinality(backlog)
           completed_backlog == Cardinality({r \in backlog : r.completed = 1})
       IN  last' = [op |-> "get_stats_summary", status |-> 200,
                    body |-> [total_viewers |-> total_viewers,
                              active_viewers_24h |-> active_viewers,
                              total_backlog_items |-> total_backlog,
                              completed_backlog_items |-> completed_backlog,
                              completion_rate |->
                                  IF total_backlog > 0
                                  THEN CompletionRate(completed_backlog, total_backlog)
                                  ELSE 0]]
    /\ UNCHANGED <<tables, tz, lastWrite, prefSet, addedAs, flips, pc, call>>

\* GET /
root ==
    /\ last' = [op |-> "root", status |-> 200,
                body |-> [status |-> "online", service |-> "Task Overlay API",
                          version |-> "1.0.0"]]
    /\ UNCHANGED <<tables, now, tz, lastWrite, prefSet, addedAs, flips, pc, call>>

(***************************************************************************)
(* set_viewer_info statement by statement, for server processes that share *)
(* the database file.  The SELECT runs outside any transaction (the driver *)
(* opens one only before the INSERT), so another process may commit        *)
(* between the two statements.                                             *)
(***************************************************************************)
set_viewer_info_select(p, username, field, value) ==
    /\ pc[p] = "idle"
    /\ pc' = [pc EXCEPT ![p] = "selected"]
    /\ call' = [call EXCEPT ![p] =
                   [username |-> username, field |-> field, value |-> value,
                    info |-> SetField(SelectInfo(viewers, username), field, value),
                    readAt |-> now, wroteAt |-> now]]
    /\ UNCHANGED <<tables, now, tz, last, lastWrite, prefSet, addedAs, flips>>

\* Mutant: the write merges the field into the map stored at the time of the write
set_viewer_info_upsert_Merging(p, d) ==
    /\ pc[p] = "selected"
    /\ Elapse(d)
    /\ viewers' = UpsertViewerInfo(viewers, call[p].username,
                      JsonDumps(SetField(SelectInfo(viewers, call[p].username),
                                         call[p].field, call[p].value)),
                      DatetimeNow(now'))
    /\ pc' = [pc EXCEPT ![p] = "committed"]
    /\ call' = [call EXCEPT ![p].wroteAt = now']
    /\ lastWrite' = (call[p].username :> now') @@ lastWrite
    /\ UNCHANGED <<backlog, backlog_seq, preferences, stats, tz, last, prefSet,
                   addedAs, flips>>

set_viewer_info_upsert(p, d) ==
    /\ pc[p] = "selected"
    /\ Elapse(d)
    /\ viewers' = UpsertViewerInfo(viewers, call[p].username, JsonDumps(call[p].info),
                                   DatetimeNow(now'))
    /\ pc' = [pc EXCEPT ![p] = "committed"]
    /\ call' = [call EXCEPT ![p].wroteAt = now']
    /\ lastWrite' = (call[p].username :> now') @@ lastWrite
    /\ UNCHANGED <<backlog, backlog_seq, preferences, stats, tz, last, prefSet,
                   addedAs, flips>>

set_viewer_info_return(p) ==
    /\ pc[p] = "committed"
    /\ pc' = [pc EXCEPT ![p] = "idle"]
    /\ last' = [op |-> "set_viewer_info", status |-> 200,
                username |-> call[p].username, field |-> call[p].field,
                value |-> call[p].value, created |-> FALSE]
    /\ UNCHANGED <<tables, now, tz, lastWrite, prefSet, addedAs, flips, call>>

(***************************************************************************)
(* The initial state: init_db on a fresh database file.                    *)
(***************************************************************************)
NoCall == [username |-> "", field |-> "", value |-> "", info |-> EmptyMap,
           readAt |-> 0, wroteAt |-> 0]

InitAt(offsets) ==
    /\ viewers = {}
    /\ backlog = {}
    /\ backlog_seq = 0
    /\ preferences = {}
    /\ stats = <<>>
    /\ now = 0
    /\ tz \in offsets
    /\ last = [op |-> "startup", status |-> 200]
    /\ lastWrite = <<>>
    /\ prefSet = <<>>
    /\ addedAs = <<>>
    /\ flips = <<>>
    /\ pc = [p \in Procs |-> "idle"]
    /\ call = [p \in Procs |-> NoCall]

Init == InitAt(TZOffsets)

ItemIds == 1..(MaxItems + 1)

(***************************************************************************)
(* Spec: the whole service, every handler, one request at a time, with a   *)
(* single viewer and within one tick of the clock.                         *)
(***************************************************************************)
Next ==
    \/ root
    \/ get_viewers
    \/ get_viewer("u1")
    \/ upsert_viewer("u1", EmptyMap, 2, 0)
    \/ set_viewer_info("u1", "f1", "a", 0)
    \/ get_backlog("u1")
    \/ /\ backlog_seq < MaxItems
       /\ add_backlog_item("u1", "d", 3, FALSE, 0)
    \/ \E i \in ItemIds : toggle_backlog_complete(i)
    \/ \E i \in ItemIds : delete_backlog_item(i)
    \/ get_preference("theme")
    \/ set_preference("theme", "a")
    \/ /\ Len(stats) < MaxStats
       /\ log_stat("task_done", NoneStr, NoneStr)
    \/ get_stats_summary(0)

Spec == InitAt({0}) /\ [][Next]_vars

(***************************************************************************)
(* SpecViewers: the viewer handlers and the summary, on hosts of every     *)
(* time zone, with time passing between requests.                          *)
(***************************************************************************)
ViewerNext ==
    \/ get_viewers
    \/ \E u \in Usernames : get_viewer(u)
    \/ \E u \in Usernames, m \in InfoMaps, c \in TaskCounts :
          upsert_viewer(u, m, c, 1)
    \/ \E u \in Usernames, f \in Fields, v \in Values :
          set_viewer_info(u, f, v, 1)
    \/ \E d \in 0..1 : get_stats_summary(d)

SpecViewers == Init /\ [][ViewerNext]_vars

(***************************************************************************)
(* SpecLookup: lookups of viewers and preferences by key.                  *)
(***************************************************************************)
LookupNext ==
    \/ \E u \in Usernames : get_viewer(u)
    \/ \E u \in Usernames, m \in {EmptyMap, [k \in {"f1"} |-> "a"]} :
          upsert_viewer(u, m, 0, 1)
    \/ \E u \in Usernames : set_viewer_info(u, "f2", "b", 1)
    \/ \E k \in Keys : get_preference(k)
    \/ \E k \in Keys, v \in Values : set_preference(k, v)

SpecLookup == InitAt({0}) /\ [][LookupNext]_vars

(***************************************************************************)
(* SpecListing: backlogs of one viewer's items of every shape among        *)
(* another viewer's items, and their listings.                             *)
(***************************************************************************)
ListingNext ==
    \/ \E u \in Usernames : get_backlog(u)
    \/ /\ backlog_seq < MaxItems
       /\ \E p \in Priorities, c \in BOOLEAN, d \in 0..1 :
             add_backlog_item("u1", "d", p, c, d)
    \/ /\ backlog_seq < MaxItems
       /\ \E d \in 0..1 : add_backlog_item("u2", "d", 3, FALSE, d)

SpecListing == InitAt({0}) /\ [][ListingNext]_vars

(***************************************************************************)
(* SpecBacklog: the life of backlog items.                                 *)
(***************************************************************************)
BacklogNext ==
    \/ get_backlog("u1")
    \/ /\ backlog_seq < MaxItems
       /\ \E p \in {1, 3}, c \in BOOLEAN : add_backlog_item("u1", "d", p, c, 0)
    \/ \E i \in ItemIds : toggle_backlog_complete(i)
    \/ \E i \in ItemIds : delete_backlog_item(i)

SpecBacklog == InitAt({0}) /\ [][BacklogNext]_vars

(***************************************************************************)
(* SpecStats: the summary over backlogs of up to MaxBulk items.            *)
(***************************************************************************)
StatsNext ==
    \/ /\ backlog_seq < MaxBulk
       /\ \E c \in BOOLEAN : add_backlog_item("u1", "d", 3, c, 0)
    \/ get_stats_summary(0)

SpecStats == InitAt({0}) /\ [][StatsNext]_vars

(***************************************************************************)
(* SpecConc: two server processes on one database file, each running       *)
(* set_viewer_info requests.                                               *)
(***************************************************************************)
ConcNext ==
    \/ \E p \in Procs, f \in Fields, v \in Values :
          set_viewer_info_select(p, "u1", f, v)
    \/ \E p \in Procs : set_viewer_info_upsert(p, 1)
    \/ \E p \in Procs : set_viewer_info_return(p)

SpecConc == InitAt({0}) /\ [][ConcNext]_vars

(***************************************************************************)
(* Claims                                                                  *)
(***************************************************************************)
RowsOf(tbl, username) == {r \in tbl : r.username = username}
Written == DOMAIN lastWrite

\* C1: the viewers table holds exactly one row for every username ever written
\* and none for any other, and right after a full upsert of u the stored info
\* map of u is exactly the map of that call and the stored task count is the
\* task count of that call.
C1_OneRowFullUpsertWins ==
    /\ \A u \in Usernames :
          Cardinality(RowsOf(viewers, u)) = IF u \in Written THEN 1 ELSE 0
    /\ \A r \in viewers : r.username \in Usernames
    /\ last.op = "upsert_viewer" =>
          \A r \in RowsOf(viewers, last.username) :
             /\ RowInfo(r) = last.info
             /\ r.task_count = last.task_count

\* A full upsert with the empty map and task count 0 has replaced an existing row.
C1_Witness ==
    /\ last.op = "upsert_viewer"
    /\ ~last.created
    /\ last.info = EmptyMap
    /\ last.task_count = 0
    /\ Cardinality(viewers) = 2

\* What a set_viewer_info step does to the viewers table.
C2_SetStep ==
    LET u == last'.username
        f == last'.field
        v == last'.value
        before == RowsOf(viewers, u)
        old == IF before = {} THEN EmptyMap
               ELSE RowInfo(CHOOSE r \in before : TRUE)
    IN  last'.op = "set_viewer_info" =>
          /\ Cardinality(RowsOf(viewers', u)) = 1
          /\ \A r \in RowsOf(viewers', u) :
                /\ DOMAIN RowInfo(r) = DOMAIN old \cup {f}
                /\ RowInfo(r)[f] = v
                /\ \A k \in DOMAIN old \ {f} : RowInfo(r)[k] = old[k]
                /\ \A b \in before : r.task_count = b.task_count
                /\ before = {} => RowInfo(r) = (f :> v) /\ r.task_count = 0
                /\ (/\ last.op = "set_viewer_info"
                    /\ last.created
                    /\ last.username = u
                    /\ last.field # f)
                   => RowInfo(r) = (last.field :> last.value) @@ (f :> v)
          /\ viewers' \ RowsOf(viewers', u) = viewers \ before

\* C2: a single-field set of (f, v) for username u leaves u with exactly one
\* row whose info map has v at f and is otherwise the map stored before, keeps
\* u's task count, leaves every other viewer row as it was; without a row
\* before, the new row's map is exactly {f: v} and its task count is 0; and a
\* set that follows the set which created u, with another field, leaves u with
\* exactly the two fields.
C2_SingleFieldSet == [][C2_SetStep]_vars

\* A set has added the second field to a viewer whose task count is 2, beside
\* another viewer.
C2_Witness ==
    /\ last.op = "set_viewer_info"
    /\ ~last.created
    /\ Cardinality(viewers) = 2
    /\ \E r \in RowsOf(viewers, last.username) :
          /\ DOMAIN RowInfo(r) = Fields
          /\ r.task_count = 2

\* C8: the summary's active_viewers_24h is the number of viewers whose latest
\* full upsert or single-field set is less than a day before the summary.
C8_ActiveWithinDay ==
    last.op = "get_stats_summary" =>
       last.body.active_viewers_24h =
          Cardinality({u \in Written : now - lastWrite[u] < Day})

Shape(item) == <<item.completed, item.priority>>

MayPrecede(a, b) ==
    IF a.completed # b.completed THEN ~a.completed
    ELSE IF a.priority # b.priority THEN a.priority > b.priority
    ELSE a.created_at <= b.created_at

\* C3: get_backlog(u) returns exactly the backlog items owned by u, each once,
\* incomplete before completed, then higher priority first, then older first;
\* items (false,5,t1), (true,1,t2), (false,3,t3) come back as
\* [(false,5,t1), (false,3,t3), (true,1,t2)].
C3_ListingOrder ==
    last.op = "get_backlog" =>
       LET body == last.body
           mine == {BacklogItemResponse(r) : r \in RowsOf(backlog, last.username)}
       IN  /\ Len(body) = Cardinality(RowsOf(backlog, last.username))
           /\ Range(body) = mine
           /\ \A i, j \in DOMAIN body : i < j => MayPrecede(body[i], body[j])
           /\ (/\ Len(body) = 3
                /\ {Shape(x) : x \in mine} = {<<FALSE, 5>>, <<TRUE, 1>>, <<FALSE, 3>>})
               => [i \in 1..3 |-> Shape(body[i])]
                     = <<(<<FALSE, 5>>), (<<FALSE, 3>>), (<<TRUE, 1>>)>>

\* The listing of the example: the items were inserted at three different times
\* in the order (false,5), (true,1), (false,3).
C3_Witness ==
    /\ last.op = "get_backlog"
    /\ Len(last.body) = 3
    /\ [i \in 1..3 |-> <<last.body[i].id, last.body[i].completed, last.body[i].priority>>]
          = <<(<<1, FALSE, 5>>), (<<3, FALSE, 3>>), (<<2, TRUE, 1>>)>>
    /\ last.body[1].created_at < last.body[3].created_at
    /\ last.body[3].created_at < last.body[2].created_at

\* What a toggle or delete step does when its id matches no row.
C4_MissStep ==
    (/\ last'.op \in {"toggle_backlog_complete", "delete_backlog_item"}
     /\ ~\E r \in backlog : r.id = last'.id)
    => /\ last'.status = 404
       /\ UNCHANGED <<viewers, backlog, backlog_seq, preferences, stats>>

\* C4: a toggle or a delete whose id matches no backlog row answers 404 and
\* leaves the four tables as they were.
C4_MissIsNotFound == [][C4_MissStep]_vars

\* A delete of an id that was issued and is deleted answers 404, with rows in
\* all four tables.
C4_Witness ==
    /\ last.op = "delete_backlog_item"
    /\ last.status = 404
    /\ last.id <= backlog_seq
    /\ backlog # {}
    /\ viewers # {}
    /\ preferences # {}
    /\ stats # <<>>

\* What a toggle step does to an existing item, and what its toggles add up to.
C5_ToggleStep ==
    \A r \in backlog :
       (last'.op = "toggle_backlog_complete" /\ last'.id = r.id) =>
          /\ last'.status = 200
          /\ backlog' = (backlog \ {r})
                \cup {[r EXCEPT !.completed = SqlBool(~PyBool(r.completed))]}
          /\ backlog_seq' = backlog_seq

C5_Parity ==
    \A r \in backlog : PyBool(r.completed) = (addedAs[r.id] # (flips[r.id] = 1))

\* C5: a toggle of an existing item flips its completed flag and changes
\* nothing else of it nor any other item; and an item that has been toggled an
\* even number of times has the completed flag it was inserted with, one
\* toggled an odd number of times the opposite.
C5_ToggleFlips == [][C5_ToggleStep]_vars /\ []C5_Parity

\* An item inserted as completed is completed again after its second toggle,
\* next to another item.
C5_Witness ==
    /\ last.op = "toggle_backlog_complete"
    /\ last.status = 200
    /\ Cardinality(backlog) >= 2
    /\ \E r \in backlog :
          /\ r.id = last.id
          /\ flips[r.id] = 0
          /\ addedAs[r.id]
          /\ r.completed = 1

\* C6: get_preference(k) answers 404 exactly when k was never set and
\* otherwise the value of the latest set of k; get_viewer(u) answers 404
\* exactly when u was never written and otherwise u's row.
C6_NotFoundIffNeverWritten ==
    /\ last.op = "get_preference" =>
          /\ last.status = 404 <=> last.key \notin DOMAIN prefSet
          /\ last.status \in {200, 404}
          /\ last.status = 200 =>
                last.body = [key |-> last.key, value |-> prefSet[last.key]]
    /\ last.op = "get_viewer" =>
          /\ last.status = 404 <=> last.username \notin Written
          /\ last.status \in {200, 404}
          /\ last.status = 200 =>
                /\ last.body.username = last.username
                /\ \E r \in viewers : last.body = ViewerInfo(r)

\* A key set first to one value and then to the other is fetched while the
\* other key is still unset and a viewer exists.
C6_Witness ==
    /\ last.op = "get_preference"
    /\ last.status = 200
    /\ last.body.value = "b"
    /\ preferences = {[key |-> last.key, value |-> "b"]}
    /\ viewers # {}

\* C7: the summary reports the number of backlog rows, the number of completed
\* ones (at most the total), and a completion rate of 0 for an empty backlog
\* and otherwise the tenth nearest to completed / total * 100; 37.5 for 3 of 8.
\* The rate is in tenths.
C7_Summary ==
    last.op = "get_stats_summary" =>
       LET total == last.body.total_backlog_items
           completed == last.body.completed_backlog_items
           rate == last.body.completion_rate
       IN  /\ total = Cardinality(backlog)
           /\ completed = Cardinality({r \in backlog : PyBool(r.completed)})
           /\ completed <= total
           /\ total = 0 => rate = 0
           /\ total > 0 =>
                 /\ 2 * (rate * total - 1000 * completed) <= total
                 /\ 2 * (1000 * completed - rate * total) <= total
           /\ (total = 8 /\ completed = 3) => rate = 375

\* The summary of 3 completed items out of 8.
C7_Witness ==
    /\ last.op = "get_stats_summary"
    /\ last.body.total_backlog_items = 8
    /\ last.body.completed_backlog_items = 3
    /\ last.body.completion_rate = 375

\* C9: when two processes have each finished a single-field set for the same
\* username with different fields, and each of them read the stored map before
\* the other one wrote, the stored map is the map the later writer read with
\* the later writer's field set: the earlier writer's update is not in it.
C9_LostUpdate ==
    \A p, q \in Procs :
       (/\ pc[p] = "committed" /\ pc[q] = "committed"
        /\ call[p].username = call[q].username
        /\ call[p].field # call[q].field
        /\ call[p].readAt < call[q].wroteAt
        /\ call[q].readAt < call[p].wroteAt
        /\ call[p].wroteAt < call[q].wroteAt)
       => /\ Cardinality(RowsOf(viewers, call[q].username)) = 1
          /\ \A r \in RowsOf(viewers, call[q].username) :
                RowInfo(r) = call[q].info

\* Both processes have answered for a new username, and the stored map holds
\* only the field of the later writer.
C9_Witness ==
    \E p, q \in Procs :
       /\ pc[p] = "committed" /\ pc[q] = "committed"
       /\ call[p].username = call[q].username
       /\ call[p].field # call[q].field
       /\ call[p].readAt = 0 /\ call[q].readAt = 0
       /\ call[p].wroteAt = 1 /\ call[q].wroteAt = 2
       /\ \E r \in viewers : DOMAIN RowInfo(r) = {call[q].field}

====
